---- MODULE Spec2Model ----
(***************************************************************************)
(* envcat (src/main.rs): pretty-printer for NUL separated NAME=VALUE       *)
(* records.  The model follows main() -> run() -> print_env() statement by *)
(* statement: Args::parse, the path computation, the pattern compilation,  *)
(* the read of the input, and the NullSplit loop of print_env with each    *)
(* write to the output sink as a step that can fail.                        *)
(*                                                                         *)
(* Option<T> values are sequences: <<>> is None, <<v>> is Some(v).          *)
(* Byte slices are sequences of byte values.                                *)
(***************************************************************************)
EXTENDS Integers, Sequences, FiniteSets, TLC

\* ------------------------------------------------------------------------
\* Bytes
\* ------------------------------------------------------------------------
NUL == 0
EQ == 61
LF == 10

\* the other bytes the modelled inputs and patterns are made of
Sample == [a |-> 97, A |-> 65, bracket |-> 91]
LowerA == Sample.a
UpperA == Sample.A
LBracket == Sample.bracket

\* the byte alphabet of the modelled inputs: NUL, '=', 'a', 'A'
Bytes == {NUL, EQ, LowerA, UpperA}

\* ------------------------------------------------------------------------
\* Bounds of the model
\* ------------------------------------------------------------------------
MaxLen == 3
MaxPairs == 2

AllSeqs(S, n) == UNION {[1..k -> S] : k \in 0..n}

\* names free of '=' and NUL; values are any bytes
PairNames == {<<>>, <<LowerA>>}
PairValues == {<<>>, <<UpperA>>, <<EQ>>, <<NUL>>}
Pairs == PairNames \X PairValues
PairSeqs == AllSeqs(Pairs, MaxPairs)

RECURSIVE Encode(_)
Encode(ps) ==
    IF ps = <<>> THEN <<>>
    ELSE ps[1][1] \o <<EQ>> \o ps[1][2] \o <<NUL>> \o Encode(Tail(ps))

\* longer buffers in the shapes of the unit test and of the documented
\* scenarios: "\0a\0\0", "\0\0a=A\0\0", "a=\0A=a\0", "a\0\0\0A", "a=A\0A=a\0"
Examples ==
    {<<NUL, LowerA, NUL, NUL>>,
     <<NUL, NUL, LowerA, EQ, UpperA, NUL, NUL>>,
     <<LowerA, EQ, NUL, UpperA, EQ, LowerA, NUL>>,
     <<LowerA, NUL, NUL, NUL, UpperA>>,
     <<LowerA, EQ, UpperA, NUL, UpperA, EQ, LowerA, NUL>>}

Inputs == AllSeqs(Bytes, MaxLen) \cup {Encode(ps) : ps \in PairSeqs} \cup Examples

\* ------------------------------------------------------------------------
\* Command line
\* ------------------------------------------------------------------------
\* "7" parses as a u32 and "-" does not; without --pid "-" means stdin
Files == {"-", "7"}
\* pattern strings "a", "A" and "[" (the last compiles neither as a glob nor
\* as a regex: an unclosed character class)
PatA == <<LowerA>>
PatUpperA == <<UpperA>>
PatBad == <<LBracket>>
PatternLists == {<<PatA>>, <<PatA, PatUpperA>>, <<PatBad>>, <<PatA, PatBad>>}

\* The command lines handed to Args::parse.  sort stands for an option
\* asking for sorted output, under any spelling: Args declares none.
Argv ==
    [pid : BOOLEAN, glob : BOOLEAN, case_sensitive : BOOLEAN,
     file : {<<>>} \cup {<<f>> : f \in Files},
     pattern : {<<>>} \cup {<<p>> : p \in PatternLists},
     sort : BOOLEAN]

\* struct Args
Args(a) ==
    [pid |-> a.pid, glob |-> a.glob, case_sensitive |-> a.case_sensitive,
     file |-> a.file, pattern |-> a.pattern]

NoArgs ==
    [pid |-> FALSE, glob |-> FALSE, case_sensitive |-> FALSE,
     file |-> <<>>, pattern |-> <<>>]

NoCmd ==
    [pid |-> FALSE, glob |-> FALSE, case_sensitive |-> FALSE,
     file |-> <<>>, pattern |-> <<>>, sort |-> FALSE]

\* the "requires" attributes of Args: --pid needs FILE, --glob and
\* --case-sensitive need PATTERN
RequiresOk(a) ==
    /\ a.pid => a.file # <<>>
    /\ a.glob => a.pattern # <<>>
    /\ a.case_sensitive => a.pattern # <<>>

\* clap accepts the command line: no undeclared option, requires satisfied
Accepted(a) == ~a.sort /\ RequiresOk(a)

\* ------------------------------------------------------------------------
\* Errors
\* ------------------------------------------------------------------------
NoErr == [op |-> "none", io |-> FALSE, kind |-> "none"]
Err(op, io, kind) == [op |-> op, io |-> io, kind |-> kind]

ReadErrorKinds == {"NotFound", "PermissionDenied"}
WriteErrorKinds == {"BrokenPipe", "StorageFull"}

\* ------------------------------------------------------------------------
\* Pattern
\* ------------------------------------------------------------------------
NoPattern == [kind |-> "none", pats |-> <<>>, ci |-> FALSE]

\* ASCII case folding as done by the case_insensitive builders
Fold(b) == IF b = UpperA THEN LowerA ELSE b
FoldSeq(s) == [i \in 1..Len(s) |-> Fold(s[i])]

\* a pattern string compiles when it has no unclosed '['
Compiles(pat) == \A i \in 1..Len(pat) : pat[i] # LBracket

\* a literal glob matches the whole name
GlobMatch(pat, ci, name) ==
    IF ci THEN FoldSeq(pat) = FoldSeq(name) ELSE pat = name

\* a literal regex matches anywhere in the name (unanchored search)
RegexMatch(pat, ci, name) ==
    LET p == IF ci THEN FoldSeq(pat) ELSE pat
        n == IF ci THEN FoldSeq(name) ELSE name
    IN \E i \in 0..(Len(n) - Len(p)) : SubSeq(n, i + 1, i + Len(p)) = p

\* Pattern::is_match
is_match(pat, name) ==
    CASE pat.kind = "Empty" -> TRUE
      [] pat.kind = "Glob" ->
            \E i \in 1..Len(pat.pats) : GlobMatch(pat.pats[i], pat.ci, name)
      [] pat.kind = "Regex" ->
            \E i \in 1..Len(pat.pats) : RegexMatch(pat.pats[i], pat.ci, name)
      [] OTHER -> FALSE

\* the match (args.pattern, args.glob) of run(): the error, or NoErr
CompileErr(a) ==
    IF a.pattern = <<>> THEN NoErr
    ELSE IF \A i \in 1..Len(a.pattern[1]) : Compiles(a.pattern[1][i]) THEN NoErr
    ELSE IF a.glob THEN Err("glob", FALSE, "invalid glob")
    ELSE Err("regex", FALSE, "failed to build RegexSet")

\* the match (args.pattern, args.glob) of run(): the compiled Pattern
Compile(a) ==
    IF a.pattern = <<>> THEN [kind |-> "Empty", pats |-> <<>>, ci |-> FALSE]
    ELSE [kind |-> IF a.glob THEN "Glob" ELSE "Regex",
          pats |-> a.pattern[1], ci |-> ~a.case_sensitive]

\* ------------------------------------------------------------------------
\* NullSplit and the record decoder
\* ------------------------------------------------------------------------
\* memchr::memchr: 0-based index of the first b in s, -1 for None
memchr(b, s) ==
    IF \E i \in 1..Len(s) : s[i] = b
    THEN (CHOOSE i \in 1..Len(s) : s[i] = b /\ \A j \in 1..(i - 1) : s[j] # b) - 1
    ELSE -1

\* &s[from..to] and &s[from..] with 0-based indices
Slice(s, from, to) == SubSeq(s, from + 1, to)
SliceFrom(s, from) == SubSeq(s, from + 1, Len(s))

\* NullSplit::next on a non-empty self.0: the chunk returned
NextChunk(s) ==
    LET pos == memchr(NUL, s)
    IN IF pos >= 0 THEN Slice(s, 0, pos) ELSE s

\* NextRest with the new self.0 starting one byte too far
NextRestSkipsByte(s) ==
    LET pos == memchr(NUL, s)
    IN IF pos >= 0 THEN SliceFrom(s, pos + 2) ELSE <<>>

\* NullSplit::next on a non-empty self.0: the new self.0
NextRest(s) ==
    LET pos == memchr(NUL, s)
    IN IF pos >= 0 THEN SliceFrom(s, pos + 1) ELSE <<>>

\* IsSkipped without the test: empty chunks are decoded too
IsSkippedNever(c) == FALSE

\* the chunk.is_empty() test of print_env
IsSkipped(c) == c = <<>>

\* KeyOf splitting at the last '=' instead of the first
KeyOfLastEq(c) ==
    IF \E i \in 1..Len(c) : c[i] = EQ
    THEN SubSeq(c, 1, (CHOOSE i \in 1..Len(c) :
                          c[i] = EQ /\ \A j \in (i + 1)..Len(c) : c[j] # EQ) - 1)
    ELSE c

\* key of the (key, val) match on memchr(b'=', chunk)
KeyOf(c) ==
    LET pos == memchr(EQ, c)
    IN IF pos >= 0 THEN Slice(c, 0, pos) ELSE c

\* ValOf without the [1..]: the '=' stays in front of the value
ValOfKeepsEq(c) ==
    LET pos == memchr(EQ, c)
    IN IF pos >= 0 THEN SliceFrom(c, pos) ELSE <<>>

\* val of the (key, val) match: &right[1..] of split_at(pos), or an empty slice
ValOf(c) ==
    LET pos == memchr(EQ, c)
    IN IF pos >= 0 THEN SliceFrom(SliceFrom(c, pos), 1) ELSE <<>>

\* ------------------------------------------------------------------------
\* Output tokens: a style directive or raw bytes
\* ------------------------------------------------------------------------
Tok(k, s, b) == [k |-> k, s |-> s, b |-> b]
StyleOn(s) == Tok("on", s, <<>>)
StyleReset(s) == Tok("reset", s, <<>>)
Raw(b) == Tok("bytes", "", b)

\* HasValueSpan without the guard: the span is written for every value
HasValueSpanAlways(v) == TRUE

\* the if !val.is_empty() guard of the value span
HasValueSpan(v) == v # <<>>

\* the writes of one loop iteration of print_env, in program order
WriteSteps == <<"key_on", "key", "key_reset", "equ", "val_on", "val", "val_reset", "newline">>

\* what one write call hands to the sink
Tokens(step, k, v) ==
    CASE step = "key_on" -> <<StyleOn("KEY")>>
      [] step = "key" -> <<Raw(k)>>
      [] step = "key_reset" -> <<StyleReset("KEY")>>
      [] step = "equ" -> <<StyleOn("EQU"), Raw(<<EQ>>), StyleReset("EQU")>>
      [] step = "val_on" -> <<StyleOn("VAL")>>
      [] step = "val" -> <<Raw(v)>>
      [] step = "val_reset" -> <<StyleReset("VAL")>>
      [] step = "newline" -> <<Raw(<<LF>>)>>

\* the statement that follows a successful write
AfterWrite(step, v) ==
    CASE step = "key_on" -> "key"
      [] step = "key" -> "key_reset"
      [] step = "key_reset" -> "equ"
      [] step = "equ" -> IF HasValueSpan(v) THEN "val_on" ELSE "newline"
      [] step = "val_on" -> "val"
      [] step = "val" -> "val_reset"
      [] step = "val_reset" -> "newline"
      [] step = "newline" -> "next"

\* AfterWriteErr with the result of the write dropped: the loop goes on
AfterWriteErrIgnored(step, v) == AfterWrite(step, v)

\* the ? operator after a write: print_env returns the error
AfterWriteErr(step, v) == "failed"

\* KeepField with the negation lost
KeepFieldInverted(pat, k) == ~is_match(pat, k)

\* if !pattern.is_match(key) { continue; }
KeepField(pat, k) == is_match(pat, k)

\* ------------------------------------------------------------------------
\* run() and main()
\* ------------------------------------------------------------------------
\* RunOrder with the input read before the patterns are compiled
RunOrderReadFirst == <<"path", "read", "pattern", "print">>

\* the order of the stages of run() after Args::parse
RunOrder == <<"path", "pattern", "read", "print">>

StageAfter(stage) ==
    LET i == CHOOSE j \in 1..Len(RunOrder) : RunOrder[j] = stage
    IN IF i < Len(RunOrder) THEN RunOrder[i + 1] ELSE "ret"

\* "7".parse::<u32>() succeeds, "-".parse::<u32>() does not
ParsesAsU32(f) == f = "7"

\* the path of run(): None for stdin
PathOf(a) ==
    IF a.pid THEN <<"/proc/" \o a.file[1] \o "/environ">>
    ELSE IF a.file = <<>> \/ a.file = <<"-">> THEN <<>>
    ELSE a.file

\* Quiet without the kind test: every io::Error is silent
QuietAnyIo(e) == e.io

\* the guard of main(): a broken pipe is silent
Quiet(e) == e.io /\ e.kind = "BrokenPipe"

VARIABLES
    input,      \* the bytes the file or stdin holds
    pc,         \* the statement the process is at
    rejected,   \* the command line clap refused, NoCmd otherwise
    args,       \* the parsed Args, until run() has consumed them
    path,       \* Option<String> of run()
    pattern,    \* the compiled Pattern
    data,       \* the buffer read
    inputRead,  \* the file or stdin has been read from
    rest,       \* NullSplit.0
    chunk,      \* the chunk of the current iteration
    key,        \* key of the current iteration
    val,        \* val of the current iteration
    out,        \* the tokens the sink has accepted
    attempts,   \* number of write calls made on the sink
    failedAt,   \* the write call that failed, 0 when none did
    err,        \* the error run() returned
    diag,       \* a diagnostic was printed on stderr
    exitCode,   \* process exit status, -1 while running
    yielded,    \* the chunks NullSplit::next returned so far
    fields,     \* the (key, val) pairs decoded so far
    written     \* the (key, val) pairs that passed the filter so far

vars ==
    <<input, pc, rejected, args, path, pattern, data, inputRead, rest, chunk,
      key, val, out, attempts, failedAt, err, diag, exitCode, yielded, fields,
      written>>

envVars == <<input>>
runVars == <<rejected, args, path, pattern, data, inputRead>>
loopVars == <<rest, chunk, key, val, yielded, fields, written>>
sinkVars == <<out, attempts, failedAt>>
exitVars == <<err, diag, exitCode>>

Init ==
    /\ input \in Inputs
    /\ pc = "parse"
    /\ rejected = NoCmd
    /\ args = NoArgs
    /\ path = <<>>
    /\ pattern = NoPattern
    /\ data = <<>>
    /\ inputRead = FALSE
    /\ rest = <<>>
    /\ chunk = <<>>
    /\ key = <<>>
    /\ val = <<>>
    /\ out = <<>>
    /\ attempts = 0
    /\ failedAt = 0
    /\ err = NoErr
    /\ diag = FALSE
    /\ exitCode = -1
    /\ yielded = <<>>
    /\ fields = <<>>
    /\ written = <<>>

\* Args::parse() accepts the command line
ArgsParse ==
    /\ pc = "parse"
    /\ \E a \in Argv :
        /\ Accepted(a)
        /\ args' = Args(a)
    /\ pc' = RunOrder[1]
    /\ UNCHANGED <<envVars, rejected, path, pattern, data, inputRead, loopVars,
                   sinkVars, exitVars>>

\* Args::parse() refuses the command line: clap prints a usage error and
\* exits with status 2
ArgsReject ==
    /\ pc = "parse"
    /\ \E a \in Argv :
        /\ ~Accepted(a)
        /\ rejected' = a
    /\ diag' = TRUE
    /\ exitCode' = 2
    /\ pc' = "exit"
    /\ UNCHANGED <<envVars, args, path, pattern, data, inputRead, loopVars,
                   sinkVars, err>>

\* let path = ...: the PID argument parses, or --pid is not given
ComputePath ==
    /\ pc = "path"
    /\ args.pid => ParsesAsU32(args.file[1])
    /\ path' = PathOf(args)
    /\ pc' = StageAfter("path")
    /\ UNCHANGED <<envVars, rejected, args, pattern, data, inputRead, loopVars,
                   sinkVars, exitVars>>

\* let path = ...: the PID argument does not parse
ComputePathFail ==
    /\ pc = "path"
    /\ args.pid
    /\ ~ParsesAsU32(args.file[1])
    /\ err' = Err("pid", FALSE, "failed to parse PID argument as integer")
    /\ pc' = "failed"
    /\ UNCHANGED <<envVars, runVars, loopVars, sinkVars, diag, exitCode>>

\* let pattern = ...: every pattern compiles; args is not used afterwards
CompilePattern ==
    /\ pc = "pattern"
    /\ CompileErr(args) = NoErr
    /\ pattern' = Compile(args)
    /\ args' = NoArgs
    /\ pc' = StageAfter("pattern")
    /\ UNCHANGED <<envVars, rejected, path, data, inputRead, loopVars,
                   sinkVars, exitVars>>

\* let pattern = ...: a pattern does not compile
CompilePatternFail ==
    /\ pc = "pattern"
    /\ CompileErr(args) # NoErr
    /\ err' = CompileErr(args)
    /\ pc' = "failed"
    /\ UNCHANGED <<envVars, runVars, loopVars, sinkVars, diag, exitCode>>

\* let data = ...: std::fs::read or stdin read_to_end returns the bytes;
\* path is not used afterwards
ReadData ==
    /\ pc = "read"
    /\ data' = input
    /\ inputRead' = TRUE
    /\ path' = <<>>
    /\ pc' = StageAfter("read")
    /\ UNCHANGED <<envVars, rejected, args, pattern, loopVars, sinkVars,
                   exitVars>>

\* let data = ...: the read fails with an io::Error
ReadDataFail ==
    /\ pc = "read"
    /\ \E k \in ReadErrorKinds : err' = Err("read", TRUE, k)
    /\ inputRead' = TRUE
    /\ path' = <<>>
    /\ pc' = "failed"
    /\ UNCHANGED <<envVars, rejected, args, pattern, data, loopVars,
                   sinkVars, diag, exitCode>>

\* print_env(&data, &mut out, &pattern): NullSplit(buf)
PrintEnvBegin ==
    /\ pc = "print"
    /\ rest' = data
    /\ pc' = "next"
    /\ UNCHANGED <<envVars, runVars, chunk, key, val, yielded, fields, written,
                   sinkVars, exitVars>>

\* NullSplit::next returns Some(chunk)
NullSplitNext ==
    /\ pc = "next"
    /\ rest # <<>>
    /\ chunk' = NextChunk(rest)
    /\ rest' = NextRest(rest)
    /\ yielded' = Append(yielded, NextChunk(rest))
    /\ pc' = "chunk"
    /\ UNCHANGED <<envVars, runVars, key, val, fields, written, sinkVars,
                   exitVars>>

\* NullSplit::next returns None: the loop ends, print_env returns Ok(())
NullSplitEnd ==
    /\ pc = "next"
    /\ rest = <<>>
    /\ pc' = StageAfter("print")
    /\ UNCHANGED <<envVars, runVars, loopVars, sinkVars, exitVars>>

\* if chunk.is_empty() { continue; }
SkipEmpty ==
    /\ pc = "chunk"
    /\ IsSkipped(chunk)
    /\ pc' = "next"
    /\ UNCHANGED <<envVars, runVars, loopVars, sinkVars, exitVars>>

\* let (key, val) = match memchr::memchr(b'=', chunk) ...
Decode ==
    /\ pc = "chunk"
    /\ ~IsSkipped(chunk)
    /\ key' = KeyOf(chunk)
    /\ val' = ValOf(chunk)
    /\ fields' = Append(fields, <<KeyOf(chunk), ValOf(chunk)>>)
    /\ pc' = "match"
    /\ UNCHANGED <<envVars, runVars, rest, chunk, yielded, written, sinkVars,
                   exitVars>>

\* if !pattern.is_match(key) { continue; }: the name does not match
SkipUnmatched ==
    /\ pc = "match"
    /\ ~KeepField(pattern, key)
    /\ chunk' = <<>>
    /\ key' = <<>>
    /\ val' = <<>>
    /\ pc' = "next"
    /\ UNCHANGED <<envVars, runVars, rest, yielded, fields, written, sinkVars,
                   exitVars>>

\* the name matches: the field is formatted
Matched ==
    /\ pc = "match"
    /\ KeepField(pattern, key)
    /\ written' = Append(written, <<key, val>>)
    /\ pc' = WriteSteps[1]
    /\ UNCHANGED <<envVars, runVars, rest, chunk, key, val, yielded, fields,
                   sinkVars, exitVars>>

IsWriteStep(p) == \E i \in 1..Len(WriteSteps) : WriteSteps[i] = p

\* one write call of print_env that the sink accepts
WriteOk ==
    /\ IsWriteStep(pc)
    /\ attempts' = attempts + 1
    /\ out' = out \o Tokens(pc, key, val)
    /\ pc' = AfterWrite(pc, val)
    /\ IF AfterWrite(pc, val) = "next"
       THEN chunk' = <<>> /\ key' = <<>> /\ val' = <<>>
       ELSE UNCHANGED <<chunk, key, val>>
    /\ UNCHANGED <<envVars, runVars, rest, yielded, fields, written, failedAt,
                   exitVars>>

\* one write call of print_env that the sink refuses with an io::Error
WriteFail ==
    /\ IsWriteStep(pc)
    /\ attempts' = attempts + 1
    /\ failedAt' = IF failedAt = 0 THEN attempts + 1 ELSE failedAt
    /\ \E k \in WriteErrorKinds : err' = Err("write", TRUE, k)
    /\ pc' = AfterWriteErr(pc, val)
    /\ UNCHANGED <<envVars, runVars, loopVars, out, diag, exitCode>>

\* run() returned Ok(()): main returns, exit status 0
MainOk ==
    /\ pc = "ret"
    /\ exitCode' = 0
    /\ pc' = "exit"
    /\ UNCHANGED <<envVars, runVars, loopVars, sinkVars, err, diag>>

\* run() returned Err(err): main prints it unless it is a broken pipe, exit(1)
MainErr ==
    /\ pc = "failed"
    /\ diag' = ~Quiet(err)
    /\ exitCode' = 1
    /\ pc' = "exit"
    /\ UNCHANGED <<envVars, runVars, loopVars, sinkVars, err>>

Next ==
    \/ ArgsParse
    \/ ArgsReject
    \/ ComputePath
    \/ ComputePathFail
    \/ CompilePattern
    \/ CompilePatternFail
    \/ ReadData
    \/ ReadDataFail
    \/ PrintEnvBegin
    \/ NullSplitNext
    \/ NullSplitEnd
    \/ SkipEmpty
    \/ Decode
    \/ SkipUnmatched
    \/ Matched
    \/ WriteOk
    \/ WriteFail
    \/ MainOk
    \/ MainErr

Spec == Init /\ [][Next]_vars

\* ------------------------------------------------------------------------
\* Reference definitions used by the properties
\* ------------------------------------------------------------------------
IsPrefix(a, b) == Len(a) <= Len(b) /\ SubSeq(b, 1, Len(a)) = a

Front(q) == SubSeq(q, 1, Len(q) - 1)

RECURSIVE Flat(_)
Flat(ss) == IF ss = <<>> THEN <<>> ELSE ss[1] \o Flat(Tail(ss))

MapSeq(Op(_), q) == [i \in 1..Len(q) |-> Op(q[i])]

NonEmpty(c) == c # <<>>

\* the buffer split at every NUL byte: piece k lies between the (k-1)-th and
\* the k-th NUL
IsNulAt(b, i) == b[i] = NUL
Cuts(b) ==
    <<0>> \o SelectSeq([i \in 1..Len(b) |-> i], LAMBDA i : IsNulAt(b, i))
          \o <<Len(b) + 1>>
Pieces(b) ==
    [k \in 1..(Len(Cuts(b)) - 1) |-> SubSeq(b, Cuts(b)[k] + 1, Cuts(b)[k + 1] - 1)]

\* ... with the last piece dropped when the buffer is empty or ends with NUL
ExpectedChunks(b) ==
    IF b = <<>> \/ b[Len(b)] = NUL THEN Front(Pieces(b)) ELSE Pieces(b)

\* name and value of a record, split at its first '='
HasEq(r) == \E i \in 1..Len(r) : r[i] = EQ
FirstEq(r) == CHOOSE p \in 1..Len(r) : r[p] = EQ /\ \A q \in 1..(p - 1) : r[q] # EQ
ExpectedField(r) ==
    IF HasEq(r) THEN <<SubSeq(r, 1, FirstEq(r) - 1), SubSeq(r, FirstEq(r) + 1, Len(r))>>
    ELSE <<r, <<>>>>

\* the Fields of a buffer: its non-empty records, decoded, in order
ExpectedFields(b) == MapSeq(ExpectedField, SelectSeq(ExpectedChunks(b), NonEmpty))

\* the line of one Field
ExpectedLine(f) ==
    <<StyleOn("KEY"), Raw(f[1]), StyleReset("KEY"),
      StyleOn("EQU"), Raw(<<EQ>>), StyleReset("EQU")>>
    \o (IF f[2] # <<>> THEN <<StyleOn("VAL"), Raw(f[2]), StyleReset("VAL")>> ELSE <<>>)
    \o <<Raw(<<LF>>)>>

ExpectedLines(fs) == Flat(MapSeq(ExpectedLine, fs))

\* print_env ran to the end of the buffer and returned Ok(())
LoopDone == pc = "ret" \/ (pc = "exit" /\ exitCode = 0)

\* print_env is between two records (no line is half written)
BetweenRecords == pc \in {"next", "chunk", "match"} \/ LoopDone

\* ------------------------------------------------------------------------
\* Properties
\* ------------------------------------------------------------------------

\* C1: the chunks NullSplit::next yields until None are the buffer split at
\* every NUL byte, without the last piece when the buffer is empty or ends
\* with NUL; while the iteration runs they are a prefix of that sequence.
C1_NullSplitChunks ==
    /\ IsPrefix(yielded, ExpectedChunks(data))
    /\ LoopDone => yielded = ExpectedChunks(data)

\* "\0a\0\0": an empty first chunk, "a", one empty chunk, no trailing chunk
C1_Witness ==
    /\ LoopDone
    /\ data = <<NUL, LowerA, NUL, NUL>>
    /\ yielded = <<<<>>, <<LowerA>>, <<>>>>

\* C2: every non-empty record is decoded without error at its first '=':
\* name is what precedes it, value what follows it; without '=' the name is
\* the whole record and the value is empty.
C2_DecodeAtFirstEq ==
    pc = "match" =>
        /\ chunk # <<>>
        /\ err = NoErr
        /\ fields # <<>> /\ fields[Len(fields)] = <<key, val>>
        /\ IF \E p \in 1..Len(chunk) : chunk[p] = EQ
           THEN \E p \in 1..Len(chunk) :
                   /\ chunk[p] = EQ
                   /\ \A q \in 1..(p - 1) : chunk[q] # EQ
                   /\ key = SubSeq(chunk, 1, p - 1)
                   /\ val = SubSeq(chunk, p + 1, Len(chunk))
           ELSE key = chunk /\ val = <<>>

\* "a==": the second '=' stays in the value
C2_Witness ==
    /\ pc = "match"
    /\ chunk = <<LowerA, EQ, EQ>>
    /\ key = <<LowerA>>
    /\ val = <<EQ>>

\* every sequence of pairs with its encoding name_i "=" value_i NUL ...
EncodedPairSeqs == {<<Encode(ps), ps>> : ps \in PairSeqs}

\* ... and those whose values hold no NUL
NulFree(v) == \A i \in 1..Len(v) : v[i] # NUL
EncodedNulFreePairSeqs ==
    {e \in EncodedPairSeqs : \A i \in 1..Len(e[2]) : NulFree(e[2][i][2])}

\* C3 as stated: for every sequence of pairs with names free of '=' and NUL
\* (and any values), splitting and decoding the encoded buffer gives the
\* pairs back.
C3_RoundTripAnyValue ==
    LoopDone => \A e \in EncodedPairSeqs : data = e[1] => fields = e[2]

\* C3 amended: for every sequence of pairs with names free of '=' and NUL
\* and values free of NUL, splitting and decoding the encoded buffer gives
\* the pairs back, one Field per pair, in order.
C3_RoundTrip ==
    LoopDone => \A e \in EncodedNulFreePairSeqs : data = e[1] => fields = e[2]

\* "a==\0=A\0": two pairs, a value holding '=' and an empty name
C3_Witness ==
    /\ LoopDone
    /\ data = Encode(<<<<<<LowerA>>, <<EQ>>>>, <<<<>>, <<UpperA>>>>>>)
    /\ fields = <<<<<<LowerA>>, <<EQ>>>>, <<<<>>, <<UpperA>>>>>>

NewlineCount(o) == Cardinality({i \in 1..Len(o) : o[i] = Raw(<<LF>>)})

\* C4: the Fields decoded are the non-empty records of the buffer, in
\* order: every chunk handled so far gave a Field exactly when it was not
\* empty, and no more lines are written than Fields were decoded.
C4_EmptyRecordsDiscarded ==
    /\ fields = MapSeq(ExpectedField,
                       SelectSeq(IF pc = "chunk" THEN Front(yielded) ELSE yielded,
                                 NonEmpty))
    /\ NewlineCount(out) <= Len(fields)
    /\ LoopDone => fields = ExpectedFields(data)

\* "\0\0a=A\0\0" gives the one Field ("a", "A")
C4_Witness ==
    /\ LoopDone
    /\ data = <<NUL, NUL, LowerA, EQ, UpperA, NUL, NUL>>
    /\ fields = <<<<<<LowerA>>, <<UpperA>>>>>>
    /\ Len(yielded) = 4

RECURSIVE LexLeq(_, _)
LexLeq(a, b) ==
    IF a = <<>> THEN TRUE
    ELSE IF b = <<>> THEN FALSE
    ELSE IF a[1] # b[1] THEN a[1] < b[1]
    ELSE LexLeq(Tail(a), Tail(b))

\* f placed behind every Field of the sorted sequence whose name is not greater
RECURSIVE InsertByName(_, _)
InsertByName(f, sorted) ==
    IF sorted = <<>> THEN <<f>>
    ELSE IF LexLeq(sorted[1][1], f[1]) THEN <<sorted[1]>> \o InsertByName(f, Tail(sorted))
    ELSE <<f>> \o sorted

RECURSIVE StableSortFrom(_, _)
StableSortFrom(fs, sorted) ==
    IF fs = <<>> THEN sorted
    ELSE StableSortFrom(Tail(fs), InsertByName(fs[1], sorted))

StableSortByName(fs) == StableSortFrom(fs, <<>>)

\* C5: when the command line asks for sorted output (and is otherwise one
\* the program can serve), the lines written are those of the matching
\* Fields in ascending byte order of name, equal names in their original
\* order.
C5_SortedWhenRequested ==
    (/\ pc = "exit"
     /\ rejected.sort
     /\ RequiresOk(rejected)
     /\ rejected.pid => ParsesAsU32(rejected.file[1])
     /\ CompileErr(Args(rejected)) = NoErr)
    => out = ExpectedLines(
                SelectSeq(StableSortByName(ExpectedFields(input)),
                          LAMBDA f : is_match(Compile(Args(rejected)), f[1])))

\* C6: when a glob or a regex does not compile, run() returns the error
\* with nothing read from the file or stdin and nothing handed to the sink.
C6_CompileErrorFirst ==
    err.op \in {"glob", "regex"} =>
        /\ pc \in {"failed", "exit"}
        /\ ~inputRead
        /\ data = <<>>
        /\ out = <<>>
        /\ attempts = 0

C6_Witness ==
    /\ pc = "exit"
    /\ err.op = "glob"
    /\ exitCode = 1

C8_AbortOnWriteError ==
    failedAt # 0 =>
        /\ attempts = failedAt
        /\ pc \in {"failed", "exit"}
        /\ err.op = "write" /\ err.io /\ err.kind \in WriteErrorKinds
        /\ IsPrefix(out, ExpectedLines(written))

\* the write of the second record's name fails
C8_Witness ==
    /\ pc = "failed"
    /\ failedAt # 0
    /\ Len(written) = 2
    /\ out = ExpectedLines(<<written[1]>>) \o <<StyleOn("KEY")>>

\* C9: every Field written gives exactly one line: the name in the key
\* style, '=' in the second style, the value as a styled span if and only
\* if it is not empty, and a newline; a line being written is a prefix of it.
C9_LineFormat ==
    /\ IsPrefix(out, ExpectedLines(written))
    /\ BetweenRecords => out = ExpectedLines(written)

\* "a=\0A=a\0": nothing between '=' and the newline of the first line
C9_Witness ==
    /\ LoopDone
    /\ written = <<<<<<LowerA>>, <<>>>>, <<<<UpperA>>, <<LowerA>>>>>>
    /\ Len(out) = 17

\* C10: the Fields written are those whose name matches the pattern, in
\* record order, the value playing no part; with no pattern every non-empty
\* record is written.
C10_WrittenIffMatch ==
    LET decided == IF pc = "match" THEN Front(fields) ELSE fields
        keep(f) == is_match(pattern, f[1])
    IN /\ pc \notin {"parse", "path", "pattern"} =>
            written = SelectSeq(decided, keep)
       /\ LoopDone =>
            /\ out = ExpectedLines(SelectSeq(ExpectedFields(data), keep))
            /\ pattern.kind = "Empty" => out = ExpectedLines(ExpectedFields(data))

\* "a=A\0A=a\0" under the case-sensitive glob "a": one line, one skip
C10_Witness ==
    /\ LoopDone
    /\ pattern = [kind |-> "Glob", pats |-> <<PatA>>, ci |-> FALSE]
    /\ fields = <<<<<<LowerA>>, <<UpperA>>>>, <<<<UpperA>>, <<LowerA>>>>>>
    /\ written = <<<<<<LowerA>>, <<UpperA>>>>>>

====
